---- MODULE Spec2Model ----
(***************************************************************************)
(* go-bank-api: the money-transfer engine (service.TransactionService),    *)
(* the account service (service.AccountService) with its cache, the       *)
(* refresh tokens of service.AuthService and the PostgreSQL tables they    *)
(* work on (accounts, transactions, refresh_tokens), as a state machine.   *)
(*                                                                         *)
(* Money.  The Go code carries amounts and balances as float64; the        *)
(* columns accounts.balance and transactions.amount are NUMERIC(15, 2).    *)
(* The model counts money in fractions of a cent (Cent units to the cent), *)
(* so that a request amount can be finer than the columns' scale, and      *)
(* every value written to a column is rounded to a whole number of cents   *)
(* the way PostgreSQL rounds on assignment (RoundNumeric).                 *)
(*                                                                         *)
(* History.  before, trace, opening, requests, moved, issued, listed,      *)
(* deposited, history, refreshed, calls, faults, deposits, creates and     *)
(* okCalls record what has happened and what calls have returned; no step  *)
(* of the program reads them, except that the counters stop the            *)
(* exploration at the bounds.                                              *)
(*                                                                         *)
(* Datastore.  One PostgreSQL database at READ COMMITTED: a unit of work   *)
(* (sql.Tx) buffers its writes (txWrites, txRows) until Commit; SELECT ... *)
(* FOR UPDATE and UPDATE take the row lock of the account (lockHolder),    *)
(* which is released when the unit of work ends.                           *)
(***************************************************************************)
EXTENDS Integers, Sequences, FiniteSets, TLC

\* ------------------------------------------------------------------ bounds

\* request goroutines that may run TransferMoney / AccountService calls
NumProcs == 2
\* TransferMoney calls started in one behaviour
MaxCalls == 2
\* storage failures (driver errors, cancelled context) injected in one behaviour
MaxFaults == 1
\* successful DepositToAccount calls in one behaviour
MaxDeposits == 1
\* CreateNewAccount calls in one behaviour
MaxCreates == 2
\* rows the accounts table may reach (ids 1..MaxAccounts)
MaxAccounts == 4
\* refresh token strings drawn
MaxTokens == 3
\* ticks of the auth service's clock
MaxTime == 2
\* the 7 days a refresh token lives, in ticks
RefreshTokenLifetime == 1
\* resolution of money: model units in one cent, the smallest step of a
\* NUMERIC(15, 2) column; a float64 amount may be any number of units
Cent == 4

\* ------------------------------------------------------------------ constants

\* GetLastAccountNumber's base number for an empty table
BaseAccountNumber == 1000000000
\* the expiry ListAccountsForUser gives a cache entry: 10*time.Minute
CacheExpiryMinutes == 10

Procs == 1..NumProcs
NoProc == 0
Users == {1, 2}
Currencies == {"TRY", "USD"}
\* account ids a request may name: the three rows of Init and those that
\* CreateNewAccount may insert
AccountIDs == 1..MaxAccounts
\* request amounts: zero, a quarter cent, half a cent, one and two cents
Amounts == {0, 1, 2, Cent, 2 * Cent}
\* deposit amounts: zero, half a cent, one cent
DepositAmounts == {0, 2, Cent}
\* balances account 1 may hold when the service starts
InitBalances == {Cent, 3 * Cent}

VARIABLES
    accounts,     \* table accounts, committed: id -> row
    ledger,       \* table transactions, committed: set of rows
    accSeq,       \* accounts.id SERIAL, last value
    txnSeq,       \* transactions.id SERIAL, last value
    lockHolder,   \* account id -> the process whose open sql.Tx holds the row lock
    pc,           \* process -> its position in TransferMoney / CreateNewAccount
    req,          \* process -> arguments of its current call
    fromAccount,  \* process -> local fromAccount of TransferMoney
    toAccount,    \* process -> local toAccount of TransferMoney
    txOpen,       \* process -> its sql.Tx is begun and not yet ended
    txStart,      \* process -> start time of its sql.Tx (CURRENT_TIMESTAMP)
    txWrites,     \* process -> uncommitted balance writes of its sql.Tx
    txRows,       \* process -> uncommitted transactions rows of its sql.Tx
    transaction,  \* process -> local transaction of TransferMoney / returned record
    err,          \* process -> error returned by its last call
    before,       \* process -> committed tables when its current call started
    newAccount,   \* process -> local account of CreateNewAccount
    trace,        \* process -> datastore operations its current call has issued
    clock,        \* database time
    calls,        \* TransferMoney calls started
    faults,       \* storage failures injected
    deposits,     \* DepositToAccount calls made
    creates,      \* CreateNewAccount calls started
    okCalls,      \* TransferMoney calls that returned success
    opening,      \* account id -> balance the row was first stored with
    requests,     \* transactions id -> the request of the call that committed the row
    cache,        \* user id -> the entry "accounts:<user id>" of the cache
    listing,      \* user id -> the list a ListAccountsForUser read on a miss
    listed,       \* user id -> the list the last ListAccountsForUser returned
    deposited,    \* arguments and error of the last DepositToAccount call
    moved,        \* account id -> sum of the balance changes its writers intended
    history,      \* arguments and result of the last ListTransactionsForAccount call
    refreshTokens, \* table refresh_tokens: set of rows
    tokenSeq,     \* refresh token strings drawn from crypto/rand so far
    issued,       \* refresh tokens that AuthenticateUser has returned
    now,          \* time.Now() of the auth service
    login,        \* process -> refresh token of its AuthenticateUser call in flight
    refreshed     \* token and error of the last RefreshAccessToken call, or the error of a failed LogoutUser

vars == <<accounts, ledger, accSeq, txnSeq, lockHolder, pc, req, fromAccount,
          toAccount, txOpen, txStart, txWrites, txRows, transaction, err,
          before, newAccount, trace, clock, calls, faults, deposits, creates,
          okCalls, opening, requests, cache, listing, listed, deposited, moved,
          history, refreshTokens, tokenSeq, issued, now, login, refreshed>>

\* the state of the auth service
authVars == <<refreshTokens, tokenSeq, issued, now, login, refreshed>>

\* ------------------------------------------------------------------ values

NoAccount == [ID |-> 0, UserID |-> 0, AccountNumber |-> 0, Balance |-> 0, Currency |-> ""]
NoTransaction == [ID |-> 0, FromAccountID |-> 0, ToAccountID |-> 0, Amount |-> 0, CreatedAt |-> 0]
NoReq == [userID |-> 0, fromAccountID |-> 0, ToAccountID |-> 0, Amount |-> 0]
NoWrites == [a \in {} |-> 0]
NoBefore == [accounts |-> <<>>, ledger |-> {}]
NoList == [present |-> FALSE, accounts |-> <<>>, expiry |-> 0]
NoListed == [present |-> FALSE, accounts |-> <<>>, err |-> "nil"]
NoDeposit == [AccountID |-> 0, Amount |-> 0, err |-> "nil"]
NoHistory == [userID |-> 0, accountID |-> 0, err |-> "nil", transactions |-> <<>>]
NoLogin == [UserID |-> 0, Token |-> 0, ExpiresAt |-> 0]
NoRefresh == [Token |-> 0, err |-> "nil"]

\* the sentinel errors of service/transaction_service.go and the wrapped
\* storage errors
ErrNone == "nil"
ErrSenderAccountNotFound == "sender account not found"
ErrReceiverAccountNotFound == "receiver account not found"
ErrSameAccountTransfer == "cannot transfer money to the same account"
ErrPermissionDenied == "you can only transfer money from your own account"
ErrInsufficientFunds == "insufficient funds"
ErrCurrencyMismatch == "currency mismatch between accounts"
ErrInvalidAmount == "transfer amount must be greater than zero"
ErrAccountNotFound == "account not found"
ErrDepositAmount == "deposit amount must be positive"
ErrInvalidRefreshToken == "invalid refresh token"
ErrExpiredRefreshToken == "expired refresh token"
ErrCouldNotLogOut == "could not log out"
ErrStorage == "storage failure"

\* a value assigned to a NUMERIC(15, 2) column: rounded to whole cents, ties
\* away from zero
RoundNumeric(x) ==
    IF x >= 0 THEN ((2 * x + Cent) \div (2 * Cent)) * Cent
    ELSE -(((2 * (-x) + Cent) \div (2 * Cent)) * Cent)

\* row id of table accounts as GetAccountForUpdate scans it into a
\* model.Account: id, user_id, balance, currency
Row(id) == [accounts[id] EXCEPT !.AccountNumber = 0]

Exists(id) == id \in DOMAIN accounts

\* ------------------------------------------------------------------ Init

\* the tables hold three accounts and no transfer yet; no call is in flight;
\* f storage failures have already happened
InitWith(f) ==
    /\ \E b1 \in InitBalances :
         accounts =
           (1 :> [ID |-> 1, UserID |-> 1, AccountNumber |-> BaseAccountNumber + 1,
                  Balance |-> b1, Currency |-> "TRY"]) @@
           (2 :> [ID |-> 2, UserID |-> 2, AccountNumber |-> BaseAccountNumber + 2,
                  Balance |-> Cent, Currency |-> "TRY"]) @@
           (3 :> [ID |-> 3, UserID |-> 2, AccountNumber |-> BaseAccountNumber + 3,
                  Balance |-> 0, Currency |-> "USD"])
    /\ ledger = {}
    /\ accSeq = 3
    /\ txnSeq = 0
    /\ lockHolder = [a \in AccountIDs |-> NoProc]
    /\ pc = [p \in Procs |-> "idle"]
    /\ req = [p \in Procs |-> NoReq]
    /\ fromAccount = [p \in Procs |-> NoAccount]
    /\ toAccount = [p \in Procs |-> NoAccount]
    /\ txOpen = [p \in Procs |-> FALSE]
    /\ txStart = [p \in Procs |-> 0]
    /\ txWrites = [p \in Procs |-> NoWrites]
    /\ txRows = [p \in Procs |-> {}]
    /\ transaction = [p \in Procs |-> NoTransaction]
    /\ err = [p \in Procs |-> ErrNone]
    /\ before = [p \in Procs |-> NoBefore]
    /\ newAccount = [p \in Procs |-> NoAccount]
    /\ trace = [p \in Procs |-> <<>>]
    /\ clock = 0
    /\ calls = 0
    /\ faults = f
    /\ deposits = 0
    /\ creates = 0
    /\ okCalls = 0
    /\ opening = [a \in DOMAIN accounts |-> accounts[a].Balance]
    /\ requests = <<>>
    /\ cache = [u \in Users |-> NoList]
    /\ listing = [u \in Users |-> NoList]
    /\ listed = [u \in Users |-> NoListed]
    /\ deposited = NoDeposit
    /\ moved = [a \in DOMAIN accounts |-> 0]
    /\ history = NoHistory
    /\ refreshTokens = {}
    /\ tokenSeq = 0
    /\ issued = {}
    /\ now = 0
    /\ login = [p \in Procs |-> NoLogin]
    /\ refreshed = NoRefresh

Init == InitWith(0)

\* a service started on empty tables
InitEmpty ==
    /\ accounts = <<>>
    /\ ledger = {}
    /\ accSeq = 0
    /\ txnSeq = 0
    /\ lockHolder = [a \in AccountIDs |-> NoProc]
    /\ pc = [p \in Procs |-> "idle"]
    /\ req = [p \in Procs |-> NoReq]
    /\ fromAccount = [p \in Procs |-> NoAccount]
    /\ toAccount = [p \in Procs |-> NoAccount]
    /\ txOpen = [p \in Procs |-> FALSE]
    /\ txStart = [p \in Procs |-> 0]
    /\ txWrites = [p \in Procs |-> NoWrites]
    /\ txRows = [p \in Procs |-> {}]
    /\ transaction = [p \in Procs |-> NoTransaction]
    /\ err = [p \in Procs |-> ErrNone]
    /\ before = [p \in Procs |-> NoBefore]
    /\ newAccount = [p \in Procs |-> NoAccount]
    /\ trace = [p \in Procs |-> <<>>]
    /\ clock = 0
    /\ calls = 0
    /\ faults = 0
    /\ deposits = 0
    /\ creates = 0
    /\ okCalls = 0
    /\ opening = <<>>
    /\ requests = <<>>
    /\ cache = [u \in Users |-> NoList]
    /\ listing = [u \in Users |-> NoList]
    /\ listed = [u \in Users |-> NoListed]
    /\ deposited = NoDeposit
    /\ moved = [a \in DOMAIN accounts |-> 0]
    /\ history = NoHistory
    /\ refreshTokens = {}
    /\ tokenSeq = 0
    /\ issued = {}
    /\ now = 0
    /\ login = [p \in Procs |-> NoLogin]
    /\ refreshed = NoRefresh

\* ------------------------------------------------------------------ sql.Tx

\* the balance p's unit of work read in row a
BalanceRead(p, a) ==
    IF a = fromAccount[p].ID THEN fromAccount[p].Balance ELSE toAccount[p].Balance

\* what the writers of each row meant to add to it, once the unit of work of p
\* is committed: the balance it wrote less the balance it had read
CommittedMoves(p) ==
    [a \in DOMAIN moved |->
        IF a \in DOMAIN txWrites[p]
        THEN moved[a] + (txWrites[p][a] - BalanceRead(p, a))
        ELSE moved[a]]

\* table accounts once the unit of work of p is committed: its buffered
\* balance writes become the rows' balances
CommittedAccounts(p) ==
    [a \in DOMAIN accounts |->
        IF a \in DOMAIN txWrites[p]
        THEN [accounts[a] EXCEPT !.Balance = txWrites[p][a]]
        ELSE accounts[a]]

\* a commit that does not cover the inserted rows
CommittedLedgerWithoutRows(p) == ledger

\* table transactions once the unit of work of p is committed
CommittedLedger(p) == ledger \cup txRows[p]

\* a rollback that is missing: the buffered writes reach the table
NotRolledBackAccounts(p) == CommittedAccounts(p)

\* table accounts once the unit of work of p is rolled back
RolledBackAccounts(p) == accounts

\* table transactions once the unit of work of p is rolled back
RolledBackLedger(p) == ledger

\* an end of the unit of work that leaves its row locks in place
LocksKept(p) == lockHolder

\* row locks once the unit of work of p has ended
Released(p) == [a \in AccountIDs |-> IF lockHolder[a] = p THEN NoProc ELSE lockHolder[a]]

\* a lock on the whole table: granted when no other unit of work holds any row
CanLockTable(p, id) == \A a \in AccountIDs : lockHolder[a] \in {NoProc, p}

\* a row lock that is granted whoever holds it
CanLockAlways(p, id) == TRUE

\* the row lock of account id can be taken by p: nobody else holds it
CanLock(p, id) == lockHolder[id] \in {NoProc, p}

\* the value UPDATE accounts SET balance = $1 leaves in the row
StoredBalance(newBalance) == RoundNumeric(newBalance)

\* the value INSERT INTO transactions (... amount) leaves in the row
StoredAmount(amount) == RoundNumeric(amount)

\* `return nil, e` of TransferMoney after BeginTx succeeded, reached after the
\* datastore operations ops of this step: the deferred tx.Rollback() ends the
\* unit of work
Fail(p, ops, e) ==
    /\ pc' = [pc EXCEPT ![p] = "done"]
    /\ err' = [err EXCEPT ![p] = e]
    /\ transaction' = [transaction EXCEPT ![p] = NoTransaction]
    /\ trace' = [trace EXCEPT ![p] = @ \o ops \o <<"Rollback">>]
    /\ accounts' = RolledBackAccounts(p)
    /\ ledger' = RolledBackLedger(p)
    /\ lockHolder' = Released(p)
    /\ txOpen' = [txOpen EXCEPT ![p] = FALSE]
    /\ txWrites' = [txWrites EXCEPT ![p] = NoWrites]
    /\ txRows' = [txRows EXCEPT ![p] = {}]

\* a storage failure (driver error, cancelled context) hits the datastore
\* operation at hand
Fault == faults < MaxFaults /\ faults' = faults + 1

\* ------------------------------------------------------------------ TransferMoney

\* TransferMoney is called; s.db.BeginTx(ctx, nil) and defer tx.Rollback()
BeginTx(p, u, f, t, a) ==
    /\ pc[p] = "idle"
    /\ calls < MaxCalls
    /\ calls' = calls + 1
    /\ clock' = clock + 1
    /\ req' = [req EXCEPT ![p] = [userID |-> u, fromAccountID |-> f, ToAccountID |-> t, Amount |-> a]]
    /\ before' = [before EXCEPT ![p] = [accounts |-> accounts, ledger |-> ledger]]
    /\ trace' = [trace EXCEPT ![p] = <<"BeginTx">>]
    /\ fromAccount' = [fromAccount EXCEPT ![p] = NoAccount]
    /\ toAccount' = [toAccount EXCEPT ![p] = NoAccount]
    /\ transaction' = [transaction EXCEPT ![p] = NoTransaction]
    /\ \/ /\ Fault
          /\ pc' = [pc EXCEPT ![p] = "done"]
          /\ err' = [err EXCEPT ![p] = ErrStorage]
          /\ UNCHANGED <<txOpen, txStart>>
       \/ /\ UNCHANGED faults
          /\ pc' = [pc EXCEPT ![p] = "check"]
          /\ err' = [err EXCEPT ![p] = ErrNone]
          /\ txOpen' = [txOpen EXCEPT ![p] = TRUE]
          /\ txStart' = [txStart EXCEPT ![p] = clock']
    /\ UNCHANGED <<accounts, ledger, accSeq, txnSeq, lockHolder, txWrites, txRows,
                   deposits, creates, okCalls,
                   newAccount, opening, requests, cache, listing, listed>>
    /\ UNCHANGED <<deposited, moved, history, authVars>>

\* argument checks without the comparison of the two account ids
RequestErrorAmountOnly(p) ==
    IF req[p].Amount <= 0 THEN ErrInvalidAmount ELSE ErrNone

\* the error of the two argument checks, in the order of the code
RequestError(p) ==
    IF req[p].fromAccountID = req[p].ToAccountID THEN ErrSameAccountTransfer
    ELSE IF req[p].Amount <= 0 THEN ErrInvalidAmount
    ELSE ErrNone

\* the two argument checks, made after the unit of work is begun
CheckRequest(p) ==
    /\ pc[p] = "check"
    /\ IF RequestError(p) # ErrNone
       THEN Fail(p, <<>>, RequestError(p))
       ELSE /\ pc' = [pc EXCEPT ![p] = "lockFrom"]
            /\ UNCHANGED <<accounts, ledger, lockHolder, txOpen, txWrites, txRows,
                           transaction, err, trace>>
    /\ UNCHANGED <<accSeq, txnSeq, req, fromAccount, toAccount, txStart, before,
                   clock, calls, faults, deposits, creates, okCalls,
                   newAccount, opening, requests, cache, listing, listed>>
    /\ UNCHANGED <<deposited, moved, history, authVars>>

\* the account of the request of p with the smaller id
LowerAccountID(p) ==
    IF req[p].ToAccountID < req[p].fromAccountID /\ Exists(req[p].ToAccountID)
    THEN req[p].ToAccountID ELSE req[p].fromAccountID

\* a first GetAccountForUpdate that locks the rows in the order of their ids:
\* it takes the lock of the account with the smaller id
GetFromAccountLowestFirst(p) ==
    /\ pc[p] = "lockFrom"
    /\ \/ /\ Fault
          /\ Fail(p, <<"GetAccountForUpdate">>, ErrStorage)
          /\ UNCHANGED fromAccount
       \/ /\ ~Exists(req[p].fromAccountID)
          /\ Fail(p, <<"GetAccountForUpdate">>, ErrSenderAccountNotFound)
          /\ UNCHANGED <<fromAccount, faults>>
       \/ /\ Exists(req[p].fromAccountID)
          /\ CanLock(p, LowerAccountID(p))
          /\ lockHolder' = [lockHolder EXCEPT ![LowerAccountID(p)] = p]
          /\ fromAccount' = [fromAccount EXCEPT ![p] = Row(req[p].fromAccountID)]
          /\ trace' = [trace EXCEPT ![p] = Append(@, "GetAccountForUpdate")]
          /\ pc' = [pc EXCEPT ![p] = "lockTo"]
          /\ UNCHANGED <<accounts, ledger, txOpen, txWrites, txRows, transaction,
                         err, faults>>
    /\ UNCHANGED <<accSeq, txnSeq, req, toAccount, txStart, before, clock, calls,
                   deposits, creates, okCalls,
                   newAccount, opening, requests, cache, listing, listed>>
    /\ UNCHANGED <<deposited, moved, history, authVars>>

\* fromAccount, err := s.accountRepo.GetAccountForUpdate(tx, fromAccountID):
\* SELECT ... FOR UPDATE, which waits while another unit of work holds the
\* row lock
GetFromAccount(p) ==
    /\ pc[p] = "lockFrom"
    /\ \/ /\ Fault
          /\ Fail(p, <<"GetAccountForUpdate">>, ErrStorage)
          /\ UNCHANGED fromAccount
       \/ /\ ~Exists(req[p].fromAccountID)
          /\ Fail(p, <<"GetAccountForUpdate">>, ErrSenderAccountNotFound)
          /\ UNCHANGED <<fromAccount, faults>>
       \/ /\ Exists(req[p].fromAccountID)
          /\ CanLock(p, req[p].fromAccountID)
          /\ lockHolder' = [lockHolder EXCEPT ![req[p].fromAccountID] = p]
          /\ fromAccount' = [fromAccount EXCEPT ![p] = Row(req[p].fromAccountID)]
          /\ trace' = [trace EXCEPT ![p] = Append(@, "GetAccountForUpdate")]
          /\ pc' = [pc EXCEPT ![p] = "lockTo"]
          /\ UNCHANGED <<accounts, ledger, txOpen, txWrites, txRows, transaction,
                         err, faults>>
    /\ UNCHANGED <<accSeq, txnSeq, req, toAccount, txStart, before, clock, calls,
                   deposits, creates, okCalls,
                   newAccount, opening, requests, cache, listing, listed>>
    /\ UNCHANGED <<deposited, moved, history, authVars>>

\* the processes whose row lock p is waiting for: p holds its source and its
\* SELECT ... FOR UPDATE of the destination waits for another unit of work
WaitsOn(p) ==
    IF /\ pc[p] = "lockTo"
       /\ Exists(req[p].ToAccountID)
       /\ lockHolder[req[p].ToAccountID] \notin {NoProc, p}
    THEN {lockHolder[req[p].ToAccountID]}
    ELSE {}

\* the processes S waits for, directly or through at most n others
RECURSIVE Blockers(_, _)
Blockers(S, n) ==
    IF n = 0 THEN S
    ELSE Blockers(S \cup UNION {WaitsOn(q) : q \in S}, n - 1)

\* p is in a cycle of units of work that each wait for a row lock the next
\* one holds; PostgreSQL's deadlock detector then makes the statement of one
\* of them fail
CircularWait(p) == p \in Blockers(WaitsOn(p), NumProcs)

\* toAccount, err := s.accountRepo.GetAccountForUpdate(tx, req.ToAccountID)
GetToAccount(p) ==
    /\ pc[p] = "lockTo"
    /\ \/ /\ Fault
          /\ Fail(p, <<"GetAccountForUpdate">>, ErrStorage)
          /\ UNCHANGED toAccount
       \/ /\ CircularWait(p)
          /\ Fail(p, <<"GetAccountForUpdate">>, ErrStorage)
          /\ UNCHANGED <<toAccount, faults>>
       \/ /\ ~Exists(req[p].ToAccountID)
          /\ Fail(p, <<"GetAccountForUpdate">>, ErrReceiverAccountNotFound)
          /\ UNCHANGED <<toAccount, faults>>
       \/ /\ Exists(req[p].ToAccountID)
          /\ CanLock(p, req[p].ToAccountID)
          /\ lockHolder' = [lockHolder EXCEPT ![req[p].ToAccountID] = p]
          /\ toAccount' = [toAccount EXCEPT ![p] = Row(req[p].ToAccountID)]
          /\ trace' = [trace EXCEPT ![p] = Append(@, "GetAccountForUpdate")]
          /\ pc' = [pc EXCEPT ![p] = "validate"]
          /\ UNCHANGED <<accounts, ledger, txOpen, txWrites, txRows, transaction,
                         err, faults>>
    /\ UNCHANGED <<accSeq, txnSeq, req, fromAccount, txStart, before, clock, calls,
                   deposits, creates, okCalls,
                   newAccount, opening, requests, cache, listing, listed>>
    /\ UNCHANGED <<deposited, moved, history, authVars>>

\* a funds check that compares the wrong way round
InsufficientFundsInverted(p) == fromAccount[p].Balance > req[p].Amount

\* fromAccount.Balance < req.Amount
InsufficientFunds(p) == fromAccount[p].Balance < req[p].Amount

\* business checks that look at the currencies before the funds
BusinessErrorCurrencyFirst(p) ==
    IF fromAccount[p].UserID # req[p].userID THEN ErrPermissionDenied
    ELSE IF fromAccount[p].Currency # toAccount[p].Currency THEN ErrCurrencyMismatch
    ELSE IF InsufficientFunds(p) THEN ErrInsufficientFunds
    ELSE ErrNone

\* business checks that leave the currencies to a later step
BusinessErrorWithoutCurrency(p) ==
    IF fromAccount[p].UserID # req[p].userID THEN ErrPermissionDenied
    ELSE IF InsufficientFunds(p) THEN ErrInsufficientFunds
    ELSE ErrNone

\* business checks that do not look at the owner of the source
BusinessErrorWithoutOwner(p) ==
    IF InsufficientFunds(p) THEN ErrInsufficientFunds
    ELSE IF fromAccount[p].Currency # toAccount[p].Currency THEN ErrCurrencyMismatch
    ELSE ErrNone

\* business checks that let a currency mismatch pass when the amount is covered
BusinessErrorCurrencyIgnored(p) ==
    IF fromAccount[p].UserID # req[p].userID THEN ErrPermissionDenied
    ELSE IF InsufficientFunds(p) THEN ErrInsufficientFunds
    ELSE ErrNone

\* the error of the three business checks on the rows read under lock, in the
\* order of the code
BusinessError(p) ==
    IF fromAccount[p].UserID # req[p].userID THEN ErrPermissionDenied
    ELSE IF InsufficientFunds(p) THEN ErrInsufficientFunds
    ELSE IF fromAccount[p].Currency # toAccount[p].Currency THEN ErrCurrencyMismatch
    ELSE ErrNone

\* the three business checks, made once both rows are locked
Validate(p) ==
    /\ pc[p] = "validate"
    /\ IF BusinessError(p) # ErrNone
       THEN Fail(p, <<>>, BusinessError(p))
       ELSE /\ pc' = [pc EXCEPT ![p] = "debit"]
            /\ UNCHANGED <<accounts, ledger, lockHolder, txOpen, txWrites, txRows,
                           transaction, err, trace>>
    /\ UNCHANGED <<accSeq, txnSeq, req, fromAccount, toAccount, txStart, before,
                   clock, calls, faults, deposits, creates, okCalls,
                   newAccount, opening, requests, cache, listing, listed>>
    /\ UNCHANGED <<deposited, moved, history, authVars>>

\* s.accountRepo.UpdateAccountBalance(tx, id, newBalance) of the unit of work
\* of p: UPDATE accounts SET balance = $1 WHERE id = $2
UpdateAccountBalance(p, id, newBalance) ==
    (id :> StoredBalance(newBalance)) @@ txWrites[p]

\* UpdateAccountBalance(tx, fromAccount.ID, fromAccount.Balance-req.Amount)
DebitSender(p) ==
    /\ pc[p] = "debit"
    /\ \/ /\ Fault
          /\ Fail(p, <<"UpdateAccountBalance">>, ErrStorage)
       \/ /\ txWrites' = [txWrites EXCEPT ![p] =
                 UpdateAccountBalance(p, fromAccount[p].ID,
                                      fromAccount[p].Balance - req[p].Amount)]
          /\ trace' = [trace EXCEPT ![p] = Append(@, "UpdateAccountBalance")]
          /\ pc' = [pc EXCEPT ![p] = "credit"]
          /\ UNCHANGED <<accounts, ledger, lockHolder, txOpen, txRows, transaction,
                         err, faults>>
    /\ UNCHANGED <<accSeq, txnSeq, req, fromAccount, toAccount, txStart, before,
                   clock, calls, deposits, creates, okCalls,
                   newAccount, opening, requests, cache, listing, listed>>
    /\ UNCHANGED <<deposited, moved, history, authVars>>

\* UpdateAccountBalance(tx, toAccount.ID, toAccount.Balance+req.Amount)
CreditReceiver(p) ==
    /\ pc[p] = "credit"
    /\ \/ /\ Fault
          /\ Fail(p, <<"UpdateAccountBalance">>, ErrStorage)
       \/ /\ txWrites' = [txWrites EXCEPT ![p] =
                 UpdateAccountBalance(p, toAccount[p].ID,
                                      toAccount[p].Balance + req[p].Amount)]
          /\ trace' = [trace EXCEPT ![p] = Append(@, "UpdateAccountBalance")]
          /\ pc' = [pc EXCEPT ![p] = "insert"]
          /\ UNCHANGED <<accounts, ledger, lockHolder, txOpen, txRows, transaction,
                         err, faults>>
    /\ UNCHANGED <<accSeq, txnSeq, req, fromAccount, toAccount, txStart, before,
                   clock, calls, deposits, creates, okCalls,
                   newAccount, opening, requests, cache, listing, listed>>
    /\ UNCHANGED <<deposited, moved, history, authVars>>

\* the row INSERT INTO transactions (from_account_id, to_account_id, amount)
\* makes: id from the SERIAL, created_at the start time of the unit of work
NewRow(p) ==
    [ID |-> txnSeq + 1,
     FromAccountID |-> req[p].fromAccountID,
     ToAccountID |-> req[p].ToAccountID,
     Amount |-> StoredAmount(req[p].Amount),
     CreatedAt |-> txStart[p]]

\* the *model.Transaction of the caller after CreateTransaction scanned
\* RETURNING id, created_at into it
ScannedTransaction(p) ==
    [ID |-> NewRow(p).ID,
     FromAccountID |-> req[p].fromAccountID,
     ToAccountID |-> req[p].ToAccountID,
     Amount |-> req[p].Amount,
     CreatedAt |-> NewRow(p).CreatedAt]

\* s.transactionRepo.CreateTransaction(tx, transaction); the INSERT fails on
\* CHECK (amount > 0), after the SERIAL has advanced
CreateTransaction(p) ==
    /\ pc[p] = "insert"
    /\ \/ /\ Fault
          /\ Fail(p, <<"CreateTransaction">>, ErrStorage)
          /\ UNCHANGED txnSeq
       \/ /\ ~(NewRow(p).Amount > 0)
          /\ Fail(p, <<"CreateTransaction">>, ErrStorage)
          /\ txnSeq' = txnSeq + 1
          /\ UNCHANGED faults
       \/ /\ NewRow(p).Amount > 0
          /\ txnSeq' = txnSeq + 1
          /\ txRows' = [txRows EXCEPT ![p] = @ \cup {NewRow(p)}]
          /\ transaction' = [transaction EXCEPT ![p] = ScannedTransaction(p)]
          /\ trace' = [trace EXCEPT ![p] = Append(@, "CreateTransaction")]
          /\ pc' = [pc EXCEPT ![p] = "commit"]
          /\ UNCHANGED <<accounts, ledger, lockHolder, txOpen, txWrites, err, faults>>
    /\ UNCHANGED <<accSeq, req, fromAccount, toAccount, txStart, before, clock,
                   calls, deposits, creates, okCalls,
                   newAccount, opening, requests, cache, listing, listed>>
    /\ UNCHANGED <<deposited, moved, history, authVars>>

\* tx.Commit(), then `return transaction, nil`; a failed Commit leaves the
\* unit of work aborted and returns the wrapped error
Commit(p) ==
    /\ pc[p] = "commit"
    /\ \/ /\ Fault
          /\ Fail(p, <<"Commit">>, ErrStorage)
          /\ UNCHANGED <<okCalls, requests, moved>>
       \/ /\ accounts' = CommittedAccounts(p)
          /\ moved' = CommittedMoves(p)
          /\ ledger' = CommittedLedger(p)
          /\ lockHolder' = Released(p)
          /\ txOpen' = [txOpen EXCEPT ![p] = FALSE]
          /\ txWrites' = [txWrites EXCEPT ![p] = NoWrites]
          /\ txRows' = [txRows EXCEPT ![p] = {}]
          /\ trace' = [trace EXCEPT ![p] = Append(@, "Commit")]
          /\ pc' = [pc EXCEPT ![p] = "done"]
          /\ okCalls' = okCalls + 1
          /\ requests' = [r \in {row.ID : row \in txRows[p]} |-> req[p]] @@ requests
          /\ UNCHANGED <<transaction, err, faults>>
    /\ UNCHANGED <<accSeq, txnSeq, req, fromAccount, toAccount, txStart, before,
                   clock, calls, deposits, creates, newAccount,
                   opening, cache, listing, listed>>
    /\ UNCHANGED <<deposited, history, authVars>>

\* the handler has written the response: the goroutine and its locals end
Return(p) ==
    /\ pc[p] = "done"
    /\ pc' = [pc EXCEPT ![p] = "idle"]
    /\ req' = [req EXCEPT ![p] = NoReq]
    /\ fromAccount' = [fromAccount EXCEPT ![p] = NoAccount]
    /\ toAccount' = [toAccount EXCEPT ![p] = NoAccount]
    /\ transaction' = [transaction EXCEPT ![p] = NoTransaction]
    /\ err' = [err EXCEPT ![p] = ErrNone]
    /\ before' = [before EXCEPT ![p] = NoBefore]
    /\ trace' = [trace EXCEPT ![p] = <<>>]
    /\ txStart' = [txStart EXCEPT ![p] = 0]
    /\ UNCHANGED <<accounts, ledger, accSeq, txnSeq, lockHolder, txOpen, txWrites,
                   txRows, newAccount, clock, calls, faults, deposits, creates,
                   okCalls, opening, requests, cache, listing, listed>>
    /\ UNCHANGED <<deposited, moved, history, authVars>>

\* the steps of a TransferMoney call after its first
TransferSteps(p) ==
    \/ CheckRequest(p)
    \/ GetFromAccount(p)
    \/ GetToAccount(p)
    \/ Validate(p)
    \/ DebitSender(p)
    \/ CreditReceiver(p)
    \/ CreateTransaction(p)
    \/ Commit(p)
    \/ Return(p)

\* ------------------------------------------------------------------ ListTransactionsForAccount

\* a query that matches the source column only
TransactionsFrom(accountID) == {r \in ledger : r.FromAccountID = accountID}

\* the rows of SELECT ... FROM transactions WHERE from_account_id = $1 OR
\* to_account_id = $1
TransactionsOf(accountID) ==
    {r \in ledger : r.FromAccountID = accountID \/ r.ToAccountID = accountID}

\* ORDER BY created_at DESC: the sequences in which the rows of S may be
\* returned; rows of equal created_at come in any order
NewestFirst(S) ==
    {o \in [1..Cardinality(S) -> S] :
        /\ \A i, j \in 1..Cardinality(S) : o[i] = o[j] => i = j
        /\ \A i, j \in 1..Cardinality(S) : i < j => o[i].CreatedAt >= o[j].CreatedAt}

\* a service that lists the history of any account to anybody
AnyoneOwns(userID, accountID) == TRUE

\* account.UserID == userID for the account GetAccountByID returned
OwnsAccount(userID, accountID) == accounts[accountID].UserID = userID

\* TransactionService.ListTransactionsForAccount(ctx, userID, accountID):
\* GetAccountByID, the owner check, GetTransactionsByAccountID; either query
\* may fail
ListTransactionsForAccount(userID, accountID) ==
    /\ \/ /\ Fault
          /\ history' = [userID |-> userID, accountID |-> accountID,
                         err |-> ErrStorage, transactions |-> <<>>]
       \/ /\ ~Exists(accountID)
          /\ history' = [userID |-> userID, accountID |-> accountID,
                         err |-> ErrAccountNotFound, transactions |-> <<>>]
          /\ UNCHANGED faults
       \/ /\ Exists(accountID)
          /\ ~OwnsAccount(userID, accountID)
          /\ history' = [userID |-> userID, accountID |-> accountID,
                         err |-> ErrPermissionDenied, transactions |-> <<>>]
          /\ UNCHANGED faults
       \/ /\ Exists(accountID)
          /\ OwnsAccount(userID, accountID)
          /\ \E o \in NewestFirst(TransactionsOf(accountID)) :
                history' = [userID |-> userID, accountID |-> accountID,
                            err |-> ErrNone, transactions |-> o]
          /\ UNCHANGED faults
    /\ UNCHANGED <<accounts, ledger, accSeq, txnSeq, lockHolder, pc, req, fromAccount,
                   toAccount, txOpen, txStart, txWrites, txRows, transaction, err,
                   before, newAccount, trace, clock, calls, deposits,
                   creates, okCalls, opening, requests, cache, listing, listed>>
    /\ UNCHANGED <<deposited, moved, authVars>>

\* ------------------------------------------------------------------ AccountService

\* the rows of user userID as GetAccountsByUserID selects them
AccountsOf(userID) ==
    [a \in {x \in DOMAIN accounts : accounts[x].UserID = userID} |-> accounts[a]]

\* a cache entry holding the JSON of list, as json.Unmarshal gives it back:
\* every field of model.Account is encoded and decoded to the same value
Entry(list) == [present |-> TRUE, accounts |-> list, expiry |-> CacheExpiryMinutes]

\* `return accounts, nil` of ListAccountsForUser
Listed(list) == [present |-> TRUE, accounts |-> list, err |-> ErrNone]

\* a write path that leaves the cache alone
DelNothing(userID) == cache

\* s.cacheClient.Del(ctx, "accounts:<userID>")
Del(userID) == [cache EXCEPT ![userID] = NoList]

\* an UPDATE that does not wait for the row lock
RowIsAlwaysFree(id) == TRUE

\* no open unit of work holds the lock of row id: an UPDATE of the row can
\* take it
RowIsFree(id) == lockHolder[id] = NoProc

\* AccountService.DepositToAccount(accountID, amount) with the repository's
\* UPDATE accounts SET balance = balance + $1 WHERE id = $2 RETURNING ...: one
\* statement in its own unit of work, which waits for the row lock; then the
\* cache entry of the account's owner is deleted
DepositToAccount(id, amount) ==
    /\ IF amount <= 0 \/ ~Exists(id)
       THEN /\ deposited' = [AccountID |-> id, Amount |-> amount,
                             err |-> IF amount <= 0 THEN ErrDepositAmount
                                     ELSE ErrAccountNotFound]
            /\ UNCHANGED <<accounts, deposits, cache, moved>>
       ELSE /\ RowIsFree(id)
            /\ deposits < MaxDeposits
            /\ deposits' = deposits + 1
            /\ accounts' = [accounts EXCEPT ![id].Balance = StoredBalance(@ + amount)]
            /\ moved' = [moved EXCEPT ![id] = @ + (accounts'[id].Balance - accounts[id].Balance)]
            /\ deposited' = [AccountID |-> id, Amount |-> amount, err |-> ErrNone]
            /\ cache' = Del(accounts[id].UserID)
    /\ UNCHANGED <<ledger, accSeq, txnSeq, lockHolder, pc, req, fromAccount,
                   toAccount, txOpen, txStart, txWrites, txRows, transaction, err,
                   before, newAccount, trace, clock, calls, faults, creates, okCalls,
                   opening, requests, listing, listed>>
    /\ UNCHANGED <<history, authVars>>

\* SELECT MAX(account_number) FROM accounts, or the base number for an empty
\* table
GetLastAccountNumber ==
    IF DOMAIN accounts = {} THEN BaseAccountNumber
    ELSE CHOOSE n \in {accounts[a].AccountNumber : a \in DOMAIN accounts} :
            \A a \in DOMAIN accounts : accounts[a].AccountNumber <= n

\* CreateNewAccount(userID, currency), up to the account it is about to insert
NewAccountNumber(p, userID, currency) ==
    /\ pc[p] = "idle"
    /\ creates < MaxCreates
    /\ creates' = creates + 1
    /\ newAccount' = [newAccount EXCEPT ![p] =
          [ID |-> 0, UserID |-> userID, AccountNumber |-> GetLastAccountNumber + 1,
           Balance |-> 0, Currency |-> currency]]
    /\ pc' = [pc EXCEPT ![p] = "createAccount"]
    /\ UNCHANGED <<accounts, ledger, accSeq, txnSeq, lockHolder, req, fromAccount,
                   toAccount, txOpen, txStart, txWrites, txRows, transaction, err,
                   before, trace, clock, calls, faults, deposits, okCalls, opening,
                   requests, cache, listing, listed>>
    /\ UNCHANGED <<deposited, moved, history, authVars>>

\* a table without the UNIQUE constraint on account_number
NoDuplicateCheck(p) == FALSE

\* account_number UNIQUE rejects the row CreateAccount is about to insert
DuplicateAccountNumber(p) ==
    \E a \in DOMAIN accounts : accounts[a].AccountNumber = newAccount[p].AccountNumber

\* s.repo.CreateAccount(account): INSERT INTO accounts (user_id, account_number,
\* currency) RETURNING id, balance, created_at; the SERIAL advances, then
\* account_number UNIQUE may reject the row and CreateNewAccount returns the
\* error; after a successful insert the cache entry of the user is deleted
\* and the account returned
CreateAccount(p) ==
    /\ pc[p] = "createAccount"
    /\ accSeq < MaxAccounts
    /\ accSeq' = accSeq + 1
    /\ IF DuplicateAccountNumber(p)
       THEN /\ err' = [err EXCEPT ![p] = ErrStorage]
            /\ newAccount' = [newAccount EXCEPT ![p] = NoAccount]
            /\ UNCHANGED <<accounts, opening, cache, moved>>
       ELSE /\ accounts' = (accSeq' :> [newAccount[p] EXCEPT !.ID = accSeq']) @@ accounts
            /\ opening' = (accSeq' :> 0) @@ opening
            /\ moved' = (accSeq' :> 0) @@ moved
            /\ err' = [err EXCEPT ![p] = ErrNone]
            /\ newAccount' = [newAccount EXCEPT ![p].ID = accSeq']
            /\ cache' = Del(newAccount[p].UserID)
    /\ pc' = [pc EXCEPT ![p] = "accountDone"]
    /\ UNCHANGED <<ledger, txnSeq, lockHolder, req, fromAccount, toAccount, txOpen,
                   txStart, txWrites, txRows, transaction, before, trace,
                   clock, calls, faults, deposits, creates, okCalls, requests,
                   listing, listed>>
    /\ UNCHANGED <<deposited, history, authVars>>

\* the account handler has written the response of CreateNewAccount
ReturnAccount(p) ==
    /\ pc[p] = "accountDone"
    /\ pc' = [pc EXCEPT ![p] = "idle"]
    /\ newAccount' = [newAccount EXCEPT ![p] = NoAccount]
    /\ err' = [err EXCEPT ![p] = ErrNone]
    /\ UNCHANGED <<accounts, ledger, accSeq, txnSeq, lockHolder, req, fromAccount,
                   toAccount, txOpen, txStart, txWrites, txRows, transaction,
                   before, trace, clock, calls, faults, deposits, creates, okCalls,
                   opening, requests, cache, listing, listed>>
    /\ UNCHANGED <<deposited, moved, history, authVars>>

CreateNewAccount(p) ==
    \/ \E u \in Users, c \in Currencies : NewAccountNumber(p, u, c)
    \/ CreateAccount(p)
    \/ ReturnAccount(p)

\* ListAccountsForUser(userID), first part: the cached list is returned when
\* the cache holds one; on a miss the rows are read from the database, and a
\* failure of that query is returned
ListAccountsForUser(userID) ==
    /\ ~listing[userID].present
    /\ IF cache[userID].present
       THEN /\ listed' = [listed EXCEPT ![userID] = Listed(cache[userID].accounts)]
            /\ UNCHANGED <<listing, faults>>
       ELSE \/ /\ Fault
               /\ listed' = [listed EXCEPT ![userID] =
                                [present |-> TRUE, accounts |-> <<>>, err |-> ErrStorage]]
               /\ UNCHANGED listing
            \/ /\ listing' = [listing EXCEPT ![userID] = Entry(AccountsOf(userID))]
               /\ UNCHANGED <<listed, faults>>
    /\ UNCHANGED <<accounts, ledger, accSeq, txnSeq, lockHolder, pc, req, fromAccount,
                   toAccount, txOpen, txStart, txWrites, txRows, transaction, err,
                   before, newAccount, trace, clock, calls, deposits,
                   creates, okCalls, opening, requests, cache>>
    /\ UNCHANGED <<deposited, moved, history, authVars>>

\* a miss that returns the list read and stores nothing
ReturnWithoutSet(userID) ==
    /\ listing[userID].present
    /\ listed' = [listed EXCEPT ![userID] = Listed(listing[userID].accounts)]
    /\ listing' = [listing EXCEPT ![userID] = NoList]
    /\ UNCHANGED <<accounts, ledger, accSeq, txnSeq, lockHolder, pc, req, fromAccount,
                   toAccount, txOpen, txStart, txWrites, txRows, transaction, err,
                   before, newAccount, trace, clock, calls, faults, deposits,
                   creates, okCalls, opening, requests, cache>>
    /\ UNCHANGED <<deposited, moved, history, authVars>>

\* ListAccountsForUser(userID), after a miss: the list read is stored in the
\* cache and returned
PopulateCache(userID) ==
    /\ listing[userID].present
    /\ cache' = [cache EXCEPT ![userID] = listing[userID]]
    /\ listed' = [listed EXCEPT ![userID] = Listed(listing[userID].accounts)]
    /\ listing' = [listing EXCEPT ![userID] = NoList]
    /\ UNCHANGED <<accounts, ledger, accSeq, txnSeq, lockHolder, pc, req, fromAccount,
                   toAccount, txOpen, txStart, txWrites, txRows, transaction, err,
                   before, newAccount, trace, clock, calls, faults, deposits,
                   creates, okCalls, opening, requests>>
    /\ UNCHANGED <<deposited, moved, history, authVars>>

\* the 10 minutes of a cache entry are over
ExpireCache(userID) ==
    /\ cache[userID].present
    /\ cache' = Del(userID)
    /\ UNCHANGED <<accounts, ledger, accSeq, txnSeq, lockHolder, pc, req, fromAccount,
                   toAccount, txOpen, txStart, txWrites, txRows, transaction, err,
                   before, newAccount, trace, clock, calls, faults, deposits,
                   creates, okCalls, opening, requests, listing, listed>>
    /\ UNCHANGED <<deposited, moved, history, authVars>>

\* ------------------------------------------------------------------ AuthService

\* base64 of sha256.Sum256 of a token string: no two strings share a hash
Hash(token) == <<"sha256", token>>

\* a DELETE that removes nothing
DeleteNothing(userID) == refreshTokens

\* DELETE FROM refresh_tokens WHERE user_id = $1
DeleteByUserID(userID) == {row \in refreshTokens : row.UserID # userID}

\* the row of SELECT ... FROM refresh_tokens WHERE token_hash = $1, if any
GetByTokenHash(tokenHash) == {row \in refreshTokens : row.TokenHash = tokenHash}

\* RefreshAccessToken finds the token's row and time.Now() is not after its
\* ExpiresAt
Accepts(token) == \E row \in GetByTokenHash(Hash(token)) : ~(now > row.ExpiresAt)

\* AuthenticateUser(email, password) of user userID with the right password,
\* up to s.tokenRepo.DeleteByUserID: a fresh random token string is drawn,
\* expiring in 7 days, and the user's stored tokens are deleted; a failure of
\* the DELETE is logged and ignored
GenerateRefreshToken(p, userID) ==
    /\ login[p] = NoLogin
    /\ tokenSeq < MaxTokens
    /\ tokenSeq' = tokenSeq + 1
    /\ login' = [login EXCEPT ![p] =
          [UserID |-> userID, Token |-> tokenSeq + 1, ExpiresAt |-> now + RefreshTokenLifetime]]
    /\ issued' = {[i EXCEPT !.relogged = @ \/ i.UserID = userID] : i \in issued}
    /\ \/ /\ Fault
          /\ UNCHANGED refreshTokens
       \/ /\ refreshTokens' = DeleteByUserID(userID)
          /\ UNCHANGED faults
    /\ UNCHANGED <<now, refreshed>>
    /\ UNCHANGED <<accounts, ledger, accSeq, txnSeq, lockHolder, pc, req, fromAccount,
                   toAccount, txOpen, txStart, txWrites, txRows, transaction, err,
                   before, newAccount, trace, clock, calls, deposits,
                   creates, okCalls, opening, requests, cache, listing, listed,
                   deposited, moved, history>>

\* AuthenticateUser, s.tokenRepo.Create(refreshToken) and the return: the hash
\* of the token is stored and the token string returned in the TokenPair; when
\* the INSERT fails the call returns the error and no token
StoreRefreshToken(p) ==
    /\ login[p] # NoLogin
    /\ login' = [login EXCEPT ![p] = NoLogin]
    /\ \/ /\ Fault
          /\ UNCHANGED <<refreshTokens, issued>>
       \/ /\ refreshTokens' = refreshTokens \cup
                {[UserID |-> login[p].UserID, TokenHash |-> Hash(login[p].Token),
                  ExpiresAt |-> login[p].ExpiresAt]}
          /\ issued' = issued \cup
                {[UserID |-> login[p].UserID, Token |-> login[p].Token,
                  ExpiresAt |-> login[p].ExpiresAt, loggedOut |-> FALSE,
                  relogged |-> FALSE]}
          /\ UNCHANGED faults
    /\ UNCHANGED <<tokenSeq, now, refreshed>>
    /\ UNCHANGED <<accounts, ledger, accSeq, txnSeq, lockHolder, pc, req, fromAccount,
                   toAccount, txOpen, txStart, txWrites, txRows, transaction, err,
                   before, newAccount, trace, clock, calls, deposits,
                   creates, okCalls, opening, requests, cache, listing, listed,
                   deposited, moved, history>>

AuthenticateUser(p) ==
    \/ \E u \in Users : GenerateRefreshToken(p, u)
    \/ StoreRefreshToken(p)

\* RefreshAccessToken(refreshTokenString): decided by the row GetByTokenHash
\* reads; any error of that query counts as an invalid token
RefreshAccessToken(token) ==
    /\ \/ /\ Fault
          /\ refreshed' = [Token |-> token, err |-> ErrInvalidRefreshToken]
       \/ /\ GetByTokenHash(Hash(token)) = {}
          /\ refreshed' = [Token |-> token, err |-> ErrInvalidRefreshToken]
          /\ UNCHANGED faults
       \/ /\ GetByTokenHash(Hash(token)) # {}
          /\ refreshed' = [Token |-> token,
                           err |-> IF Accepts(token) THEN ErrNone
                                   ELSE ErrExpiredRefreshToken]
          /\ UNCHANGED faults
    /\ UNCHANGED <<refreshTokens, tokenSeq, issued, now, login>>
    /\ UNCHANGED <<accounts, ledger, accSeq, txnSeq, lockHolder, pc, req, fromAccount,
                   toAccount, txOpen, txStart, txWrites, txRows, transaction, err,
                   before, newAccount, trace, clock, calls, deposits,
                   creates, okCalls, opening, requests, cache, listing, listed,
                   deposited, moved, history>>

\* LogoutUser(userID): the user's stored tokens are deleted; a failure of the
\* DELETE is returned
LogoutUser(userID) ==
    /\ \/ /\ Fault
          /\ refreshed' = [Token |-> 0, err |-> ErrCouldNotLogOut]
          /\ UNCHANGED <<refreshTokens, issued>>
       \/ /\ refreshTokens' = DeleteByUserID(userID)
          /\ issued' = {[i EXCEPT !.loggedOut = @ \/ i.UserID = userID] : i \in issued}
          /\ UNCHANGED <<faults, refreshed>>
    /\ UNCHANGED <<tokenSeq, now, login>>
    /\ UNCHANGED <<accounts, ledger, accSeq, txnSeq, lockHolder, pc, req, fromAccount,
                   toAccount, txOpen, txStart, txWrites, txRows, transaction, err,
                   before, newAccount, trace, clock, calls, deposits,
                   creates, okCalls, opening, requests, cache, listing, listed,
                   deposited, moved, history>>

\* time passes
Tick ==
    /\ now < MaxTime
    /\ now' = now + 1
    /\ UNCHANGED <<refreshTokens, tokenSeq, issued, login, refreshed, faults>>
    /\ UNCHANGED <<accounts, ledger, accSeq, txnSeq, lockHolder, pc, req, fromAccount,
                   toAccount, txOpen, txStart, txWrites, txRows, transaction, err,
                   before, newAccount, trace, clock, calls, deposits,
                   creates, okCalls, opening, requests, cache, listing, listed,
                   deposited, moved, history>>

\* ------------------------------------------------------------------ specifications

\* no call is in flight
Quiet == \A q \in Procs : pc[q] = "idle"

\* Spec: TransferMoney calls with every combination of arguments, one call at
\* a time, with storage failures
Next ==
    \/ \E p \in Procs : \E u \in Users, f \in AccountIDs, t \in AccountIDs, a \in Amounts :
          Quiet /\ BeginTx(p, u, f, t, a)
    \/ \E p \in Procs : TransferSteps(p)

Spec == Init /\ [][Next]_vars

\* accounts and amounts of the concurrent calls: the two TRY accounts; half a
\* cent, one and two cents
ConcAccounts == {1, 2}
ConcAmounts == {2, Cent, 2 * Cent}
BankAmounts == {2, 2 * Cent}

\* SpecConc: TransferMoney calls that run concurrently on shared accounts, with
\* storage failures
NextConc ==
    \/ \E p \in Procs : \E u \in Users, f \in ConcAccounts, t \in ConcAccounts, a \in ConcAmounts :
          BeginTx(p, u, f, t, a)
    \/ \E p \in Procs : TransferSteps(p)

SpecConc == Init /\ [][NextConc]_vars

\* SpecLive: SpecConc where every request goroutine that can take a step
\* eventually takes one (the Go scheduler and the database server starve
\* nobody)
SpecLive == SpecConc /\ \A p \in Procs : WF_vars(TransferSteps(p))

\* SpecBank: concurrent TransferMoney calls among deposits of positive amounts
\* and account creations, without storage failures
NextBank ==
    \/ \E p \in Procs : \E u \in Users, f \in ConcAccounts, t \in ConcAccounts, a \in BankAmounts :
          BeginTx(p, u, f, t, a)
    \/ \E p \in Procs : TransferSteps(p)
    \/ \E id \in ConcAccounts, a \in DepositAmounts \ {0} : DepositToAccount(id, a)
    \/ \E p \in Procs : NewAccountNumber(p, 1, "TRY") \/ CreateAccount(p) \/ ReturnAccount(p)

SpecBank == InitWith(MaxFaults) /\ [][NextBank]_vars

\* SpecCache: TransferMoney calls of one cent from account 1 to account 2 by
\* its owner and deposits of one cent into account 2, among
\* ListAccountsForUser calls and expiring cache entries, without storage
\* failures
NextCache ==
    \/ \E p \in Procs : BeginTx(p, 1, 1, 2, Cent)
    \/ \E p \in Procs : TransferSteps(p)
    \/ DepositToAccount(2, Cent)
    \/ \E u \in Users : ListAccountsForUser(u)
    \/ \E u \in Users : PopulateCache(u)
    \/ \E u \in Users : ExpireCache(u)

SpecCache == InitWith(MaxFaults) /\ [][NextCache]_vars

\* SpecAccounts: concurrent CreateNewAccount calls, on empty tables or on the
\* three accounts of Init
NextAccounts == \E p \in Procs : CreateNewAccount(p)

SpecAccounts == (InitEmpty \/ Init) /\ [][NextAccounts]_vars

\* SpecParallel: concurrent TransferMoney calls of one cent by the owner of
\* the source, between accounts 1 and 2 and between account 3 and the
\* account that a CreateNewAccount stores as the fourth, with a deposit into
\* account 3, without storage failures
ParallelCalls == {<<1, 1, 2>>, <<2, 2, 1>>, <<2, 3, MaxAccounts>>, <<2, MaxAccounts, 3>>}

NextParallel ==
    \/ \E p \in Procs : \E c \in ParallelCalls : BeginTx(p, c[1], c[2], c[3], Cent)
    \/ \E p \in Procs : TransferSteps(p)
    \/ \E p \in Procs : NewAccountNumber(p, 2, "USD") \/ CreateAccount(p) \/ ReturnAccount(p)
    \/ DepositToAccount(3, Cent)

SpecParallel == InitWith(MaxFaults) /\ [][NextParallel]_vars

\* SpecAuth: concurrent logins, refreshes and logouts of both users while time
\* passes, with storage failures
NextAuth ==
    \/ \E p \in Procs : AuthenticateUser(p)
    \/ \E t \in 0..MaxTokens : RefreshAccessToken(t)
    \/ \E u \in Users : LogoutUser(u)
    \/ Tick

SpecAuth == Init /\ [][NextAuth]_vars

\* SpecHistory: concurrent TransferMoney calls of one cent between the two
\* TRY accounts, among ListTransactionsForAccount calls of both users for
\* these accounts and for an account id that does not exist, with storage
\* failures
HistoryAccounts == ConcAccounts \cup {MaxAccounts}

NextHistory ==
    \/ \E p \in Procs : \E u \in Users, f \in ConcAccounts, t \in ConcAccounts :
          f # t /\ BeginTx(p, u, f, t, Cent)
    \/ \E p \in Procs : TransferSteps(p)
    \/ \E u \in Users, a \in HistoryAccounts : ListTransactionsForAccount(u, a)

SpecHistory == Init /\ [][NextHistory]_vars

\* SpecWrites: deposits of every amount and of a quarter of a cent into account 1 and into the account
\* id that a CreateNewAccount is going to store, and concurrent
\* CreateNewAccount calls of both users, among ListAccountsForUser calls, with
\* storage failures, on empty tables or on the three accounts of Init; no
\* cache entry lives for 10 minutes
NextWrites ==
    \/ \E id \in {1, MaxAccounts}, a \in DepositAmounts \cup {1} : DepositToAccount(id, a)
    \/ \E p \in Procs : \E u \in Users : NewAccountNumber(p, u, "USD")
    \/ \E p \in Procs : CreateAccount(p) \/ ReturnAccount(p)
    \/ \E u \in Users : ListAccountsForUser(u)
    \/ \E u \in Users : PopulateCache(u)

SpecWrites == (InitEmpty \/ Init) /\ [][NextWrites]_vars

\* SpecService: SpecWrites with expiring cache entries
NextService ==
    \/ NextWrites
    \/ \E u \in Users : ExpireCache(u)

SpecService == (InitEmpty \/ Init) /\ [][NextService]_vars

\* ------------------------------------------------------------------ claims

\* the validation errors of TransferMoney
ValidationErrors ==
    {ErrSameAccountTransfer, ErrInvalidAmount, ErrSenderAccountNotFound,
     ErrReceiverAccountNotFound, ErrPermissionDenied, ErrInsufficientFunds,
     ErrCurrencyMismatch}

\* the call of p has returned
Returned(p) == pc[p] = "done"
Failed(p) == Returned(p) /\ err[p] # ErrNone
Succeeded(p) == Returned(p) /\ err[p] = ErrNone

\* op is among the datastore operations the current call of p has issued
Issued(p, op) == \E i \in 1..Len(trace[p]) : trace[p][i] = op

\* C1 (Spec): a TransferMoney call that has returned an error has left the
\* accounts table (every balance, so those of its source and destination) and
\* the transactions table exactly as they were when it was called, also when
\* it failed after its balance writes were issued.
C1_FailedTransferChangesNothing ==
    \A p \in Procs :
        Failed(p) => /\ accounts = before[p].accounts
                     /\ ledger = before[p].ledger

\* C1 witness: a call has failed on Commit, after the debit, the credit and
\* the ledger row were written inside its unit of work
C1_Witness ==
    \E p \in Procs :
        /\ Failed(p)
        /\ err[p] = ErrStorage
        /\ Issued(p, "UpdateAccountBalance")
        /\ Issued(p, "CreateTransaction")
        /\ Issued(p, "Commit")

\* C2 (Spec): after a TransferMoney call has returned success with amount a,
\* the source's committed balance is its balance read under lock minus a, the
\* destination's is its balance read under lock plus a, and the source's
\* balance is >= 0.
C2_SuccessMovesExactlyTheAmount ==
    \A p \in Procs :
        Succeeded(p) =>
            /\ accounts[req[p].fromAccountID].Balance = fromAccount[p].Balance - req[p].Amount
            /\ accounts[req[p].ToAccountID].Balance = toAccount[p].Balance + req[p].Amount
            /\ accounts[req[p].fromAccountID].Balance >= 0

\* C2, as far as the code goes: the committed balances are the values the
\* NUMERIC(15, 2) column keeps of balance - a and balance + a, and the
\* source's balance is >= 0
C2_SuccessStoresRoundedBalances ==
    \A p \in Procs :
        Succeeded(p) =>
            /\ accounts[req[p].fromAccountID].Balance =
                  RoundNumeric(fromAccount[p].Balance - req[p].Amount)
            /\ accounts[req[p].ToAccountID].Balance =
                  RoundNumeric(toAccount[p].Balance + req[p].Amount)
            /\ accounts[req[p].fromAccountID].Balance >= 0

\* C3 (SpecBank): in every reachable state, whatever the interleaving of
\* account creations, deposits and transfers, every account's committed balance
\* is >= 0, and so is every balance written inside an open unit of work.
C3_BalancesNeverNegative ==
    /\ \A a \in DOMAIN accounts : accounts[a].Balance >= 0
    /\ \A p \in Procs : \A a \in DOMAIN txWrites[p] : txWrites[p][a] >= 0

\* C3 witness: an account was created, a deposit was made, a transfer has
\* committed and has left its source with a balance of exactly zero
C3_Witness ==
    /\ creates > 0
    /\ deposits > 0
    /\ Cardinality(DOMAIN accounts) = MaxAccounts
    /\ \E r \in ledger : accounts[r.FromAccountID].Balance = 0

\* the calls that have returned and whose callers still hold the result
DoneCalls == {p \in Procs : Returned(p)}

\* sum of f over the finite set S
RECURSIVE SumOver(_, _)
SumOver(S, f) ==
    IF S = {} THEN 0
    ELSE LET x == CHOOSE y \in S : TRUE IN f[x] + SumOver(S \ {x}, f)

\* the orders in which the calls of S can be run one at a time
Orders(S) ==
    {o \in [1..Cardinality(S) -> S] : \A i, j \in 1..Cardinality(S) : o[i] = o[j] => i = j}

\* the calls of order o from position i on, run one at a time on a source
\* holding remaining, end as the calls did: a call succeeded exactly when the
\* remaining balance covered its amount, and failed with InsufficientFunds
\* otherwise
RECURSIVE SerialOutcome(_, _, _)
SerialOutcome(o, i, remaining) ==
    IF i > Len(o) THEN TRUE
    ELSE IF remaining >= req[o[i]].Amount
         THEN err[o[i]] = ErrNone /\ SerialOutcome(o, i + 1, remaining - req[o[i]].Amount)
         ELSE err[o[i]] = ErrInsufficientFunds /\ SerialOutcome(o, i + 1, remaining)

\* the calls made so far are two or more calls that have all returned, all
\* made by its owner on the same source src towards another account, each for
\* an amount the opening balance covers, together for more than it, and none
\* was hit by a storage failure
ConcurrentDebitsOf(src) ==
    /\ Cardinality(DoneCalls) >= 2
    /\ calls = Cardinality(DoneCalls)
    /\ \A p \in Procs \ DoneCalls : pc[p] = "idle"
    /\ \A p \in DoneCalls :
          /\ req[p].fromAccountID = src
          /\ req[p].ToAccountID # src
          /\ req[p].userID = accounts[src].UserID
          /\ req[p].Amount <= opening[src]
          /\ err[p] # ErrStorage
    /\ SumOver(DoneCalls, [p \in DoneCalls |-> req[p].Amount]) > opening[src]

\* C4 (SpecConc): concurrent TransferMoney calls debiting one source, each for
\* an amount that fits the opening balance, together for more, end as if they
\* had run one at a time in some order: a call succeeds exactly when the
\* balance remaining at its position covers its amount and fails with
\* InsufficientFunds otherwise; the amounts of the successful calls sum to at
\* most the opening balance; the source's balance is not negative.
C4_ConcurrentDebitsAreSerial ==
    \A src \in DOMAIN accounts :
        ConcurrentDebitsOf(src) =>
            /\ \E o \in Orders(DoneCalls) : SerialOutcome(o, 1, opening[src])
            /\ SumOver({p \in DoneCalls : err[p] = ErrNone},
                       [p \in DoneCalls |-> req[p].Amount]) <= opening[src]
            /\ accounts[src].Balance >= 0

\* C4, for amounts in whole cents only: the same statement holds
C4_ConcurrentWholeCentDebitsAreSerial ==
    \A src \in DOMAIN accounts :
        (ConcurrentDebitsOf(src) /\ \A p \in DoneCalls : RoundNumeric(req[p].Amount) = req[p].Amount) =>
            /\ \E o \in Orders(DoneCalls) : SerialOutcome(o, 1, opening[src])
            /\ SumOver({p \in DoneCalls : err[p] = ErrNone},
                       [p \in DoneCalls |-> req[p].Amount]) <= opening[src]
            /\ accounts[src].Balance >= 0

\* the committed ledger rows into and out of account a
RowsInto(a) == {r \in ledger : r.ToAccountID = a}
RowsOutOf(a) == {r \in ledger : r.FromAccountID = a}
AmountOf(S) == SumOver(S, [r \in S |-> r.Amount])

\* C5 (SpecConc): once all TransferMoney calls have finished, whatever their
\* interleaving, each account's balance is its opening balance plus the
\* amounts of the committed transfers into it minus the amounts of the
\* committed transfers out of it.
C5_BalancesAgreeWithLedger ==
    (\A p \in Procs : pc[p] \in {"idle", "done"}) =>
        \A a \in DOMAIN accounts :
            accounts[a].Balance = opening[a] + AmountOf(RowsInto(a)) - AmountOf(RowsOutOf(a))

\* total of the balances of table t
Total(t) == SumOver(DOMAIN t, [a \in DOMAIN t |-> t[a].Balance])

\* C6 (Spec): a TransferMoney call that has returned, with success or with an
\* error, has left the total of all balances (so the sum of its source's and
\* destination's balances) as it was when the call was made.
C6_TransferConservesTotal ==
    \A p \in Procs : Returned(p) => Total(accounts) = Total(before[p].accounts)

\* C7 (Spec): the number of committed ledger rows is the number of
\* TransferMoney calls that returned success; the record returned by a
\* successful call is a committed row, with identifier and timestamp
\* populated, and carries the call's source, destination and amount; a failed
\* call has added no row.
C7_OneRowPerSuccessfulTransfer ==
    /\ Cardinality(ledger) = okCalls
    /\ \A p \in Procs :
          /\ Succeeded(p) =>
                /\ transaction[p] \in ledger
                /\ transaction[p] \notin before[p].ledger
                /\ transaction[p].ID > 0
                /\ transaction[p].CreatedAt > 0
                /\ transaction[p].FromAccountID = req[p].fromAccountID
                /\ transaction[p].ToAccountID = req[p].ToAccountID
                /\ transaction[p].Amount = req[p].Amount
          /\ Failed(p) => ledger = before[p].ledger

\* C7, the part about later changes: no step changes or removes a committed
\* ledger row
C7_RowsAreNeverChanged == [][ledger \subseteq ledger']_vars

\* C7, as far as the code goes: as C7_OneRowPerSuccessfulTransfer, but the
\* committed row carries the amount as NUMERIC(15, 2) keeps it while the
\* returned record carries the amount of the request
C7_OneRoundedRowPerSuccessfulTransfer ==
    /\ Cardinality(ledger) = okCalls
    /\ \A p \in Procs :
          /\ Succeeded(p) =>
                /\ [transaction[p] EXCEPT !.Amount = RoundNumeric(@)] \in ledger
                /\ transaction[p].ID > 0
                /\ transaction[p].CreatedAt > 0
                /\ transaction[p].FromAccountID = req[p].fromAccountID
                /\ transaction[p].ToAccountID = req[p].ToAccountID
                /\ transaction[p].Amount = req[p].Amount
          /\ Failed(p) => ledger = before[p].ledger

\* the error the validations give for request r on accounts table t when they
\* are applied in the order SameAccountTransfer, InvalidAmount,
\* SenderAccountNotFound, ReceiverAccountNotFound, PermissionDenied,
\* InsufficientFunds, CurrencyMismatch and the first failing one decides
FirstViolation(r, t) ==
    IF r.fromAccountID = r.ToAccountID THEN ErrSameAccountTransfer
    ELSE IF r.Amount <= 0 THEN ErrInvalidAmount
    ELSE IF r.fromAccountID \notin DOMAIN t THEN ErrSenderAccountNotFound
    ELSE IF r.ToAccountID \notin DOMAIN t THEN ErrReceiverAccountNotFound
    ELSE IF t[r.fromAccountID].UserID # r.userID THEN ErrPermissionDenied
    ELSE IF t[r.fromAccountID].Balance < r.Amount THEN ErrInsufficientFunds
    ELSE IF t[r.fromAccountID].Currency # t[r.ToAccountID].Currency THEN ErrCurrencyMismatch
    ELSE ErrNone

\* C8 (Spec): a TransferMoney call that has returned without a storage failure
\* has returned the error of the first validation its request fails, in the
\* order SameAccountTransfer, InvalidAmount, SenderAccountNotFound,
\* ReceiverAccountNotFound, PermissionDenied, InsufficientFunds,
\* CurrencyMismatch, and success when it fails none.
C8_FirstFailingValidationDecides ==
    \A p \in Procs :
        (Returned(p) /\ err[p] # ErrStorage) =>
            err[p] = FirstViolation(req[p], before[p].accounts)

\* C8 witness: a call by the owner for more than the source holds, towards an
\* account of another currency, has returned InsufficientFunds
C8_Witness ==
    \E p \in Procs :
        /\ Failed(p)
        /\ err[p] = ErrInsufficientFunds
        /\ fromAccount[p].Currency # toAccount[p].Currency
        /\ fromAccount[p].UserID = req[p].userID

\* C9 (Spec): a TransferMoney call rejected with SameAccountTransfer or
\* InvalidAmount has begun no unit of work and issued no datastore operation.
C9_RejectedBeforeAnyIO ==
    \A p \in Procs :
        (Failed(p) /\ err[p] \in {ErrSameAccountTransfer, ErrInvalidAmount}) =>
            trace[p] = <<>>

\* C9, as far as the code goes: such a call has begun a unit of work and
\* rolled it back, and has read, locked and written no row
C9_RejectedBeforeAnyRowIsTouched ==
    \A p \in Procs :
        (Failed(p) /\ err[p] \in {ErrSameAccountTransfer, ErrInvalidAmount}) =>
            trace[p] = <<"BeginTx", "Rollback">>

\* C10 (Spec): a TransferMoney call that has failed a validation has invoked
\* neither UpdateAccountBalance nor CreateTransaction, its unit of work is
\* rolled back and the balances are as they were when it was called; and a call
\* that has invoked UpdateAccountBalance is one whose request passes all of the
\* validations.
C10_ValidationPrecedesWrites ==
    \A p \in Procs :
        /\ (Failed(p) /\ err[p] \in ValidationErrors) =>
              /\ ~Issued(p, "UpdateAccountBalance")
              /\ ~Issued(p, "CreateTransaction")
              /\ ~Issued(p, "Commit")
              /\ trace[p][Len(trace[p])] = "Rollback"
              /\ ~txOpen[p]
              /\ accounts = before[p].accounts
        /\ Issued(p, "UpdateAccountBalance") =>
              FirstViolation(req[p], before[p].accounts) = ErrNone

\* C10 witness: a call for more than its source holds has returned
\* InsufficientFunds after BeginTx, two GetAccountForUpdate and Rollback
C10_Witness ==
    \E p \in Procs :
        /\ Failed(p)
        /\ err[p] = ErrInsufficientFunds
        /\ fromAccount[p].Balance = Cent
        /\ req[p].Amount = 2 * Cent
        /\ trace[p] = <<"BeginTx", "GetAccountForUpdate", "GetAccountForUpdate", "Rollback">>

\* the request of p names an existing source that its user does not own
NotOwner(p) ==
    /\ req[p].fromAccountID \in DOMAIN before[p].accounts
    /\ before[p].accounts[req[p].fromAccountID].UserID # req[p].userID

\* the request of p passes the checks the code makes before it looks at the
\* owner: distinct accounts, a positive amount, an existing destination
ReachesOwnerCheck(p) ==
    /\ req[p].fromAccountID # req[p].ToAccountID
    /\ req[p].Amount > 0
    /\ req[p].ToAccountID \in DOMAIN before[p].accounts

OnlyCurrenciesDiffer(p) ==
    /\ ReachesOwnerCheck(p)
    /\ req[p].fromAccountID \in DOMAIN before[p].accounts
    /\ before[p].accounts[req[p].fromAccountID].UserID = req[p].userID
    /\ before[p].accounts[req[p].fromAccountID].Balance >= req[p].Amount
    /\ before[p].accounts[req[p].fromAccountID].Currency #
          before[p].accounts[req[p].ToAccountID].Currency

\* C12 (Spec): a TransferMoney call between two existing accounts of
\* different currencies, made by the source's owner with a positive amount
\* that the source covers, has failed with CurrencyMismatch (unless a storage
\* failure came first) and changed nothing; and every committed ledger row
\* links two accounts of the same currency.
C12_NoTransferAcrossCurrencies ==
    /\ \A p \in Procs :
          (Returned(p) /\ OnlyCurrenciesDiffer(p)) =>
              /\ Failed(p)
              /\ err[p] \in {ErrCurrencyMismatch, ErrStorage}
              /\ accounts = before[p].accounts
              /\ ledger = before[p].ledger
    /\ \A r \in ledger :
          accounts[r.FromAccountID].Currency = accounts[r.ToAccountID].Currency

\* C12 witness: the owner of TRY account 1 asked for one cent, which it
\* holds, towards USD account 3 and was refused with CurrencyMismatch
C12_Witness ==
    \E p \in Procs :
        /\ Failed(p)
        /\ err[p] = ErrCurrencyMismatch
        /\ req[p].Amount = Cent
        /\ fromAccount[p].Currency = "TRY"
        /\ toAccount[p].Currency = "USD"
        /\ fromAccount[p].Balance >= req[p].Amount

\* the committed rows of earlier calls that were made with the arguments of
\* the current call of p
SameRequestBefore(p) == {r \in before[p].ledger : requests[r.ID] = req[p]}

\* C13 (Spec): when a TransferMoney call has succeeded after an earlier
\* successful call with identical arguments, the source covering both, there
\* are two ledger rows with distinct identifiers, the source is debited by
\* twice the amount and the destination credited by twice the amount.
C13_SecondCallTransfersAgain ==
    \A p \in Procs :
        (/\ Succeeded(p)
         /\ SameRequestBefore(p) # {}
         /\ Cardinality(ledger) = 2
         /\ opening[req[p].fromAccountID] >= 2 * req[p].Amount) =>
            /\ \A r \in SameRequestBefore(p) : r.ID # transaction[p].ID
            /\ Cardinality({r.ID : r \in ledger}) = 2
            /\ accounts[req[p].fromAccountID].Balance =
                  opening[req[p].fromAccountID] - 2 * req[p].Amount
            /\ accounts[req[p].ToAccountID].Balance =
                  opening[req[p].ToAccountID] + 2 * req[p].Amount

\* C13, for amounts in whole cents only: the same statement holds
C13_SecondWholeCentCallTransfersAgain ==
    \A p \in Procs :
        (/\ Succeeded(p)
         /\ SameRequestBefore(p) # {}
         /\ Cardinality(ledger) = 2
         /\ RoundNumeric(req[p].Amount) = req[p].Amount
         /\ opening[req[p].fromAccountID] >= 2 * req[p].Amount) =>
            /\ \A r \in SameRequestBefore(p) : r.ID # transaction[p].ID
            /\ Cardinality({r.ID : r \in ledger}) = 2
            /\ accounts[req[p].fromAccountID].Balance =
                  opening[req[p].fromAccountID] - 2 * req[p].Amount
            /\ accounts[req[p].ToAccountID].Balance =
                  opening[req[p].ToAccountID] + 2 * req[p].Amount

\* C13, the part that holds for every amount: the second call commits a second
\* row with an identifier of its own and writes both balances again
C13_SecondCallCommitsAgain ==
    \A p \in Procs :
        (Succeeded(p) /\ SameRequestBefore(p) # {}) =>
            /\ \A r \in SameRequestBefore(p) : r.ID # transaction[p].ID
            /\ Cardinality({r.ID : r \in ledger}) = Cardinality(before[p].ledger) + 1
            /\ Issued(p, "UpdateAccountBalance")

\* the last datastore operation the current call of p has issued
LastOp(p) == trace[p][Len(trace[p])]

\* the unit of work of the returned call of p is ended and nothing of it is
\* left: by Commit when the call succeeded, by Rollback when it failed after
\* BeginTx, and never begun when BeginTx itself failed
Ended(p) ==
    /\ ~txOpen[p]
    /\ \A a \in AccountIDs : lockHolder[a] # p
    /\ txWrites[p] = NoWrites
    /\ txRows[p] = {}
    /\ IF err[p] = ErrNone THEN LastOp(p) = "Commit"
       ELSE LastOp(p) = "Rollback" \/ trace[p] = <<"BeginTx">>

\* C14 (SpecLive): no TransferMoney call has returned while its unit of work
\* is open or while it holds an account lock: a returned call's unit of work
\* was ended by Commit on success and by Rollback on every other path; and
\* every unit of work that is open is eventually ended.
C14_UnitOfWorkIsAlwaysEnded ==
    /\ [](\A p \in Procs : Returned(p) => Ended(p))
    /\ \A p \in Procs : txOpen[p] ~> ~txOpen[p]

\* C14 witness: a call that waited for a row lock held by another open unit
\* of work has returned a storage failure (its context was cancelled, or the
\* datastore failed its statement) and holds nothing, while the other unit of
\* work is still open
C14_Witness ==
    \E p, q \in Procs :
        /\ p # q
        /\ Failed(p)
        /\ err[p] = ErrStorage
        /\ LastOp(p) = "Rollback"
        /\ txOpen[q]
        /\ lockHolder[req[p].ToAccountID] = q
        /\ \A a \in AccountIDs : lockHolder[a] # p

\* the rows the open unit of work of p has read with SELECT ... FOR UPDATE
LockedRows(p) ==
    IF txOpen[p] THEN {fromAccount[p].ID, toAccount[p].ID} \ {NoAccount.ID} ELSE {}

\* C15 (SpecBank): no account row is locked by two open units of work at a
\* time; a row read by GetAccountForUpdate stays locked by that unit of work
\* for as long as it is open; and no other unit of work, transfer or deposit,
\* has written the row meanwhile: its committed balance is still the one read.
C15_RowLocksAreExclusive ==
    /\ \A p, q \in Procs : p # q => LockedRows(p) \cap LockedRows(q) = {}
    /\ \A p \in Procs : \A a \in LockedRows(p) :
          /\ lockHolder[a] = p
          /\ accounts[a].Balance = BalanceRead(p, a)

\* C15 witness: one unit of work holds the locks of accounts 1 and 2 and has
\* written both balances, while the other process's GetAccountForUpdate of
\* account 1 waits
C15_Witness ==
    \E p, q \in Procs :
        /\ p # q
        /\ LockedRows(p) = {1, 2}
        /\ DOMAIN txWrites[p] = {1, 2}
        /\ pc[q] = "lockFrom"
        /\ req[q].fromAccountID = 1
        /\ ~CanLock(q, 1)

\* C16 (SpecConc): a unit of work that asks for the lock of its destination
\* holds the lock of its source and not yet that of its destination, and one
\* that holds the lock of its destination holds that of its source, whichever
\* of the two account ids is the smaller.
C16_SourceIsLockedFirst ==
    \A p \in Procs :
        /\ pc[p] = "lockTo" =>
              /\ lockHolder[req[p].fromAccountID] = p
              /\ lockHolder[req[p].ToAccountID] # p
        /\ (txOpen[p] /\ lockHolder[req[p].ToAccountID] = p) =>
              lockHolder[req[p].fromAccountID] = p

\* C16 witness: two transfers in opposite directions between accounts 1 and
\* 2 each hold the lock of their own source and wait for the lock of the
\* other's
C16_Witness ==
    \E p, q \in Procs :
        /\ p # q
        /\ pc[p] = "lockTo" /\ pc[q] = "lockTo"
        /\ req[p].fromAccountID = 1 /\ req[p].ToAccountID = 2
        /\ req[q].fromAccountID = 2 /\ req[q].ToAccountID = 1
        /\ lockHolder[1] = p /\ lockHolder[2] = q
        /\ WaitsOn(p) = {q} /\ WaitsOn(q) = {p}

\* the step makes visible, all at once, the whole effect of the unit of work
\* of p: its ledger row and both balance writes, as the columns keep them,
\* and nothing else
CommitsWhole(p) ==
    /\ pc[p] = "commit"
    /\ pc'[p] = "done"
    /\ err'[p] = ErrNone
    /\ \E r \in ledger' \ ledger :
          /\ ledger' = ledger \cup {r}
          /\ r.FromAccountID = req[p].fromAccountID
          /\ r.ToAccountID = req[p].ToAccountID
          /\ r.Amount = RoundNumeric(req[p].Amount)
    /\ DOMAIN accounts' = DOMAIN accounts
    /\ \A a \in DOMAIN accounts :
          accounts'[a] =
             IF a = req[p].fromAccountID
             THEN [accounts[a] EXCEPT !.Balance = RoundNumeric(@ - req[p].Amount)]
             ELSE IF a = req[p].ToAccountID
             THEN [accounts[a] EXCEPT !.Balance = RoundNumeric(@ + req[p].Amount)]
             ELSE accounts[a]

\* C17 (SpecConc): what a read outside the units of work can see, the
\* committed accounts and the committed ledger, changes in no step of a
\* transfer but the successful Commit, and there by the debit, the credit and
\* the ledger row together: no interleaving shows a debit without the credit,
\* a balance write without the row or the row without the balance writes.
C17_EffectsBecomeVisibleTogether ==
    [][\/ accounts' = accounts /\ ledger' = ledger
       \/ \E p \in Procs : CommitsWhole(p)]_vars

\* C17 witness: a unit of work has written the debit, the credit and the
\* ledger row and not yet committed; the committed tables show none of them
C17_Witness ==
    \E p \in Procs :
        /\ pc[p] = "commit"
        /\ DOMAIN txWrites[p] = {req[p].fromAccountID, req[p].ToAccountID}
        /\ txWrites[p][req[p].fromAccountID] < accounts[req[p].fromAccountID].Balance
        /\ txWrites[p][req[p].ToAccountID] > accounts[req[p].ToAccountID].Balance
        /\ txRows[p] # {}
        /\ txRows[p] \cap ledger = {}
        /\ accounts = before[p].accounts

\* C18 (SpecCache): once a TransferMoney call has returned success, the
\* account-listing cache entries of the owners of its source and of its
\* destination are gone or hold the owners' current rows, so that a
\* ListAccountsForUser for either owner yields the balances after the
\* transfer.
C18_TransferInvalidatesBothOwners ==
    \A p \in Procs :
        Succeeded(p) =>
            \A a \in {req[p].fromAccountID, req[p].ToAccountID} :
                \/ ~cache[accounts[a].UserID].present
                \/ cache[accounts[a].UserID].accounts = AccountsOf(accounts[a].UserID)

\* the fields of model.Transaction
TransactionFields == DOMAIN NoTransaction

\* C19 (Spec): what a successful TransferMoney returns carries, beside the
\* Transaction record, the owner of the source account and the owner of the
\* destination account.
C19_ResultExposesBothOwners ==
    \A p \in Procs :
        Succeeded(p) =>
            \E f, g \in DOMAIN transaction[p] \ TransactionFields :
                /\ f # g
                /\ transaction[p][f] = accounts[req[p].fromAccountID].UserID
                /\ transaction[p][g] = accounts[req[p].ToAccountID].UserID

\* the greatest account number stored in table t, the base number when the
\* table is empty
Greatest(t) ==
    IF DOMAIN t = {} THEN BaseAccountNumber
    ELSE CHOOSE n \in {t[a].AccountNumber : a \in DOMAIN t} :
            \A a \in DOMAIN t : t[a].AccountNumber <= n

\* C20 (SpecAccounts): no two stored accounts share an account number; an
\* account that a step creates has the greatest number stored before the step
\* plus one, 1000000001 on an empty table; and a CreateNewAccount whose number
\* has meanwhile been stored by a concurrent call returns an error and creates
\* nothing, while any other creates exactly its account.
C20_AccountNumbersAreSequential ==
    /\ [](\A a, b \in DOMAIN accounts :
             accounts[a].AccountNumber = accounts[b].AccountNumber => a = b)
    /\ [][\A a \in DOMAIN accounts' \ DOMAIN accounts :
             /\ accounts'[a].AccountNumber = Greatest(accounts) + 1
             /\ DOMAIN accounts = {} => accounts'[a].AccountNumber = 1000000001]_vars
    /\ [][\A p \in Procs :
             (pc[p] = "createAccount" /\ pc'[p] = "accountDone") =>
                IF \E a \in DOMAIN accounts :
                      accounts[a].AccountNumber = newAccount[p].AccountNumber
                THEN err'[p] # ErrNone /\ accounts' = accounts
                ELSE /\ err'[p] = ErrNone
                     /\ Cardinality(DOMAIN accounts') = Cardinality(DOMAIN accounts) + 1
                     /\ \E a \in DOMAIN accounts' \ DOMAIN accounts :
                           accounts'[a].AccountNumber = newAccount[p].AccountNumber]_vars

\* C20 witness: on an empty table two concurrent calls both read the base
\* number; one has created account number 1000000001, the other has returned
\* an error and created nothing
C20_Witness ==
    \E p, q \in Procs :
        /\ p # q
        /\ pc[p] = "accountDone" /\ err[p] = ErrNone
        /\ newAccount[p].AccountNumber = BaseAccountNumber + 1
        /\ pc[q] = "accountDone" /\ err[q] # ErrNone
        /\ Cardinality(DOMAIN accounts) = 1
        /\ creates = 2

\* step: account a is inserted by a CreateNewAccount, or its row is rewritten
\* by the UPDATE of a DepositToAccount (to an equal balance when the amount
\* is below half a cent)
Written(a) ==
    \/ a \notin DOMAIN accounts
    \/ deposits' = deposits + 1 /\ deposited'.AccountID = a

C22_ListIsCacheAside ==
    [][\A u \in Users :
         /\ ~listing[u].present /\ listing'[u].present
               => /\ ~cache[u].present
                  /\ listing'[u].accounts = AccountsOf(u)
                  /\ cache' = cache
         /\ listed'[u] # listed[u]
               => \/ /\ cache[u].present
                     /\ ~listing[u].present
                     /\ listed'[u] = Listed(cache[u].accounts)
                     /\ cache' = cache
                     /\ listing' = listing
                  \/ /\ listing[u].present
                     /\ listed'[u] = Listed(listing[u].accounts)
                     /\ cache' = [cache EXCEPT ![u] =
                           [present |-> TRUE, accounts |-> listing[u].accounts,
                            expiry |-> CacheExpiryMinutes]]
                     /\ ~listing'[u].present
                  \/ /\ ~cache[u].present
                     /\ listed'[u].err = ErrStorage
                     /\ listed'[u].accounts = <<>>
                     /\ cache' = cache
                     /\ listing' = listing
         /\ cache'[u].present /\ cache'[u] # cache[u]
               => /\ listing[u].present
                  /\ cache'[u].accounts = listing[u].accounts
                  /\ listed'[u] = Listed(cache'[u].accounts)
      ]_vars

\* user 1 has been served a stored list of accounts, and the query of user 2
\* has failed on a miss and left no entry
C22_Witness ==
    /\ cache[1].present
    /\ cache[1].accounts # <<>>
    /\ listed[1] = Listed(cache[1].accounts)
    /\ listed[2].err = ErrStorage
    /\ ~cache[2].present
    /\ ~listing[2].present

\* no AccountService call is in flight
QuietService == Quiet /\ \A u \in Users : ~listing[u].present

\* C30 (SpecService): whenever no AccountService call is in flight, a cache
\* entry present for a user holds the rows the database now has for that
\* user.
C30_CacheIsCoherentAtRest ==
    QuietService =>
        \A u \in Users : cache[u].present => cache[u].accounts = AccountsOf(u)

\* the rows of sequence h
Rows(h) == {h[i] : i \in DOMAIN h}

\* C23 (SpecHistory): a history that ListTransactionsForAccount returns for
\* account X holds every committed row of a transfer that was requested from
\* X or to X, once each, holds only committed rows whose source or destination
\* is X, and lists them by created_at, the newest first.
C23_HistoryIsSymmetric ==
    [][history' # history /\ history'.err = ErrNone =>
         LET X == history'.accountID
             h == history'.transactions
         IN  /\ \A r \in ledger :
                   (requests[r.ID].fromAccountID = X \/ requests[r.ID].ToAccountID = X)
                      => r \in Rows(h)
             /\ \A i \in DOMAIN h :
                   h[i] \in ledger /\ (h[i].FromAccountID = X \/ h[i].ToAccountID = X)
             /\ \A i, j \in DOMAIN h :
                   /\ i < j => h[i].CreatedAt >= h[j].CreatedAt
                   /\ h[i] = h[j] => i = j
      ]_vars

\* the owner of an account has been given a history of two rows, the newer of
\* a transfer out of the account and the older of a transfer into it
C23_Witness ==
    /\ history.err = ErrNone
    /\ Len(history.transactions) = 2
    /\ history.transactions[1].FromAccountID = history.accountID
    /\ history.transactions[2].ToAccountID = history.accountID
    /\ history.transactions[1].CreatedAt > history.transactions[2].CreatedAt

\* C29 (SpecHistory): a ListTransactionsForAccount call changes no table, no
\* sequence and no lock; it returns rows only to the owner of the account;
\* for an account id that does not exist it returns no row and, unless the
\* storage failed, ErrAccountNotFound; for an account of another user it
\* returns no row and, unless the storage failed, ErrPermissionDenied.
C29_HistoryOnlyForTheOwner ==
    [][history' # history =>
         LET X == history'.accountID
             u == history'.userID
         IN  /\ accounts' = accounts
             /\ ledger' = ledger
             /\ accSeq' = accSeq /\ txnSeq' = txnSeq
             /\ lockHolder' = lockHolder
             /\ txWrites' = txWrites /\ txRows' = txRows
             /\ history'.transactions # <<>> => Exists(X) /\ accounts[X].UserID = u
             /\ history'.err = ErrNone => Exists(X) /\ accounts[X].UserID = u
             /\ ~Exists(X) =>
                   /\ history'.transactions = <<>>
                   /\ faults' = faults => history'.err = ErrAccountNotFound
             /\ Exists(X) /\ accounts[X].UserID # u =>
                   /\ history'.transactions = <<>>
                   /\ faults' = faults => history'.err = ErrPermissionDenied
      ]_vars

\* a user has asked for the history of an account of another user that has
\* committed rows, and has been denied
C29_Witness ==
    /\ history.err = ErrPermissionDenied
    /\ Exists(history.accountID)
    /\ accounts[history.accountID].UserID # history.userID
    /\ TransactionsOf(history.accountID) # {}
    /\ history.transactions = <<>>

\* C24 as stated (SpecAuth): a refresh token returned by AuthenticateUser is
\* rejected once a LogoutUser of its user has succeeded, and is accepted until
\* then while it has not expired.
C24_AcceptedUntilLogout ==
    \A i \in issued :
        /\ i.loggedOut => ~Accepts(i.Token)
        /\ ~i.loggedOut /\ now <= i.ExpiresAt => Accepts(i.Token)

\* C24 (SpecAuth): a refresh token returned by AuthenticateUser is rejected
\* from the moment a LogoutUser of its user has succeeded, for good; it is
\* accepted while it has not expired and its user has neither logged out nor
\* begun to authenticate again since it was issued; and RefreshAccessToken
\* returns an access token only for a token that is accepted, and for every
\* such token unless the storage fails.
C24_LogoutRevokesRefreshTokens ==
    /\ [](\A i \in issued :
            /\ i.loggedOut => ~Accepts(i.Token)
            /\ ~i.loggedOut /\ ~i.relogged /\ now <= i.ExpiresAt => Accepts(i.Token))
    /\ [][refreshed' # refreshed /\ refreshed'.err # ErrCouldNotLogOut =>
            /\ refreshed'.err = ErrNone => Accepts(refreshed'.Token)
            /\ Accepts(refreshed'.Token) /\ faults' = faults => refreshed'.err = ErrNone
         ]_vars

\* a refresh with an unexpired token of a user who has logged out has been
\* rejected, while a token of the other user is still accepted
C24_Witness ==
    /\ refreshed.err = ErrInvalidRefreshToken
    /\ faults = 0
    /\ \E i \in issued :
          /\ i.Token = refreshed.Token
          /\ i.loggedOut
          /\ now <= i.ExpiresAt
          /\ \E j \in issued : j.UserID # i.UserID /\ Accepts(j.Token)

\* C25 (SpecBank): every step that changes the committed balance of a row is
\* either the commit of an open unit of work of TransferMoney that holds the
\* row's lock, or a deposit's UPDATE made while no unit of work holds it; and
\* no write is lost or overwritten: every balance is the balance the row was
\* first stored with plus, for every deposit and every committed debit or
\* credit, the difference between what the writer stored and what it had read.
C25_BalanceWritesHoldTheLock ==
    /\ [](\A a \in DOMAIN accounts : accounts[a].Balance = opening[a] + moved[a])
    /\ [][\A a \in DOMAIN accounts :
            accounts'[a].Balance # accounts[a].Balance =>
               \/ \E p \in Procs :
                     /\ txOpen[p] /\ ~txOpen'[p]
                     /\ pc[p] = "commit"
                     /\ lockHolder[a] = p
                     /\ a \in LockedRows(p)
               \/ /\ deposits' = deposits + 1
                  /\ deposited'.AccountID = a
                  /\ lockHolder[a] = NoProc
                  /\ \A p \in Procs : a \notin LockedRows(p)
         ]_vars

\* a transfer of two cents has succeeded, a deposit into its destination was
\* made while the call was running, and the destination holds both
C25_Witness ==
    \E p \in Procs :
        /\ Succeeded(p)
        /\ okCalls = 1
        /\ deposits = 1
        /\ deposited.AccountID = req[p].ToAccountID
        /\ req[p].Amount = 2 * Cent
        /\ accounts[req[p].ToAccountID].Balance =
              before[p].accounts[req[p].ToAccountID].Balance + 3 * Cent

\* C26 (Spec): every committed ledger row has an amount above zero and a
\* source different from its destination, and names two accounts that exist;
\* both accounts were already stored when the row was inserted by its unit of
\* work and when that unit of work was committed.
C26_LedgerRowsAreWellFormed ==
    /\ [](\A r \in ledger :
            /\ r.Amount > 0
            /\ r.FromAccountID # r.ToAccountID
            /\ Exists(r.FromAccountID) /\ Exists(r.ToAccountID))
    /\ [][/\ \A r \in ledger' \ ledger :
               Exists(r.FromAccountID) /\ Exists(r.ToAccountID)
          /\ \A p \in Procs : \A r \in txRows'[p] \ txRows[p] :
               Exists(r.FromAccountID) /\ Exists(r.ToAccountID)
         ]_vars

\* a transfer has committed a row, and the row of another call, of an amount
\* that the column stores as zero, was turned down by CHECK (amount > 0)
C26_Witness ==
    /\ ledger # {}
    /\ calls = MaxCalls
    /\ txnSeq > Cardinality(ledger)
    /\ \E p \in Procs : Succeeded(p)

\* the accounts whose committed balance differs from the one they had when
\* the call of p started
ChangedBalances(p) ==
    {a \in DOMAIN accounts :
        accounts[a].Balance # before[p].accounts[a].Balance}

\* since the call of p started no account was created or deleted and no
\* account changed its id, owner, currency or account number
SameAccounts(p) ==
    /\ DOMAIN accounts = DOMAIN before[p].accounts
    /\ \A a \in DOMAIN accounts :
          [accounts[a] EXCEPT !.Balance = 0] = [before[p].accounts[a] EXCEPT !.Balance = 0]

\* C27 (Spec): a TransferMoney call that has returned has created or deleted
\* no account and changed no owner, currency or account number; when it
\* succeeded, the accounts whose balance it changed are its source and its
\* destination, both of them and no other.
C27_TransferChangesItsTwoBalances ==
    \A p \in Procs :
        Returned(p) =>
            /\ SameAccounts(p)
            /\ Succeeded(p) =>
                  ChangedBalances(p) = {req[p].fromAccountID, req[p].ToAccountID}

\* C27, the frame alone (Spec): a call that has returned has created or
\* deleted no account, changed no owner, currency or account number and no
\* balance but those of its source and destination; a successful call of a
\* whole number of cents has changed both.
C27_TransferTouchesOnlyItsTwoBalances ==
    \A p \in Procs :
        Returned(p) =>
            /\ SameAccounts(p)
            /\ ChangedBalances(p) \subseteq {req[p].fromAccountID, req[p].ToAccountID}
            /\ Succeeded(p) /\ RoundNumeric(req[p].Amount) = req[p].Amount =>
                  ChangedBalances(p) = {req[p].fromAccountID, req[p].ToAccountID}

\* the row the call of p is about to lock, if any
Wanted(p) ==
    IF pc[p] = "lockFrom" THEN req[p].fromAccountID
    ELSE IF pc[p] = "lockTo" THEN req[p].ToAccountID
    ELSE 0

\* the call of p is at a SELECT ... FOR UPDATE that cannot return yet
Waiting(p) == Wanted(p) # 0 /\ Exists(Wanted(p)) /\ ~CanLock(p, Wanted(p))

\* the call of p is running and no other open unit of work has locked its
\* source or its destination
Unhindered(p) ==
    /\ txOpen[p]
    /\ \A q \in Procs \ {p} :
          {req[p].fromAccountID, req[p].ToAccountID} \cap LockedRows(q) = {}

\* C28 (SpecParallel): a TransferMoney call that waits for a row lock waits
\* for a row that another open unit of work, whose transfer names that row
\* as its source or destination, has locked; and a call whose source and
\* destination are locked by no other unit of work is not waiting: whatever
\* other transfers are in flight, its next step can be taken.
C28_DisjointTransfersDoNotBlock ==
    \A p \in Procs :
        /\ Waiting(p) =>
              \E q \in Procs \ {p} :
                 /\ txOpen[q]
                 /\ lockHolder[Wanted(p)] = q
                 /\ Wanted(p) \in LockedRows(q)
                 /\ Wanted(p) \in {req[q].fromAccountID, req[q].ToAccountID}
                 /\ Wanted(p) \in {req[p].fromAccountID, req[p].ToAccountID}
        /\ Unhindered(p) => ~Waiting(p) /\ ENABLED TransferSteps(p)

\* two transfers over disjoint pairs of accounts are in flight at once, each
\* holding the locks of both its accounts
C28_Witness ==
    \E p, q \in Procs :
        /\ p # q
        /\ txOpen[p] /\ txOpen[q]
        /\ Cardinality(LockedRows(p)) = 2
        /\ Cardinality(LockedRows(q)) = 2
        /\ LockedRows(p) \cap LockedRows(q) = {}

====
